---------------------------- MODULE Spec2Model ----------------------------
(***************************************************************************)
(* The Clock frame variant of the heat-pump protocol codec                 *)
(* (components/hwp/FrameClock.h, FrameClock.cpp, base_frame.h): one        *)
(* FrameClock instance with its raw packet, its decoded payload (data_),   *)
(* the snapshot of the previous payload (prev_data_) and the aggregate     *)
(* domain state it projects into (hp_data.time).                           *)
(*                                                                         *)
(* An optional<T> is a sequence of length 0 (no value) or 1 (the value).   *)
(* A text is a sequence of one-character strings; the two highlight        *)
(* markers and the base colour are tokens of their own.                    *)
(***************************************************************************)
EXTENDS Integers, Sequences, FiniteSets, TLC

VARIABLES packet,      \* BaseFrame::packet of the instance: [data, data_len]
          data_,       \* optional<clock_time_t>: the current payload
          prev_data_,  \* optional<clock_time_t>: the previous payload
          hp_time,     \* heat_pump_data_t::time, the aggregate domain state
          ret,         \* the last call: its name, argument and result
          stages,      \* number of stage() calls so far
          curStamp,    \* optional: ordinal of the stage() that produced data_
          prevStamp,   \* optional: ordinal of the stage() that produced prev_data_
          transferred, \* a transfer() has completed after a stage()
          phase,       \* progress through stage(a); transfer(); stage(b)
          hist         \* the raw frames a (and b) of that sequence

\* A frame under construction for sending: assigned from a byte template,
\* changed through data() and encoded by finalize()
VARIABLES bf,          \* its BaseFrame::packet
          bd,          \* its data_
          bret         \* the last call on it and its argument

\* clock_time::diff and format(false) on a pair of payloads
VARIABLES dv,          \* the value rendered (data_)
          dr,          \* the reference (prev_data_)
          dret         \* the last call and its text

\* The frame registry
VARIABLES registry,      \* BaseFrame::registry_: the entries, in registration order
          class_type_id, \* T::class_type_id of every frame class T
          rret,          \* the last call, its argument and its result
          observed       \* the frame classes a dispatched frame has matched

clockVars == <<packet, data_, prev_data_, hp_time, ret, stages, curStamp, prevStamp,
               transferred, phase, hist>>

codecVars == <<bf, bd, bret>>

diffVars == <<dv, dr, dret>>

regVars == <<registry, class_type_id, rret, observed>>

vars == <<clockVars, codecVars, diffVars, regVars>>

---------------------------------------------------------------------------
(* Bounds of the model *)

\* stage() is called at most MaxStages times in a behaviour
MaxStages == 2

\* every byte of the template frame is perturbed by 1..MaxDelta
MaxDelta == 1

\* captured lengths fall short of the full frame by up to MaxShort bytes
MaxShort == 1

\* byte templates are up to MaxOver bytes longer than the packet buffer
MaxOver == 2

\* byte templates are filled from MaxSeed different patterns
MaxSeed == 3

\* the frame classes of the registry are 1..MaxClasses, FrameClock being 1
MaxClasses == 2

\* a cached instance is staged at most MaxFrames times
MaxFrames == 2

\* the payload byte rendered three characters wide is 100 + MaxWide
MaxWide == 1

---------------------------------------------------------------------------
(* Program constants *)

\* sizeof(clock_time_t) == frame_data_length - 2, with ten one-byte fields
FrameDataLength == 12

FRAME_ID_CLOCK == 207

---------------------------------------------------------------------------
(* optional<T> *)

Nullopt == <<>>

Some(v) == <<v>>

HasValue(o) == Len(o) = 1

Value(o) == o[1]

ValueOr(o, d) == IF HasValue(o) THEN o[1] ELSE d

---------------------------------------------------------------------------
(* The raw packet and the packed payload *)

Bytes == 0..255

PayloadFields == <<"id", "reserved1", "reserved2", "year", "month", "day",
                   "hour", "minute", "reserved3", "reserved4">>

ComparedFields == {"id", "year", "month", "day", "hour", "minute"}

ReservedFields == {"reserved1", "reserved2", "reserved3", "reserved4"}

\* hp_packetdata_t::get_type(): the frame-type identifier is the first byte
GetType(pkt) == pkt.data[1]

\* hp_packetdata_t::as_type<clock_time_t>(): the first sizeof(clock_time_t)
\* bytes of the buffer read as the packed struct, whatever data_len is
AsType(pkt) ==
  [id        |-> pkt.data[1],
   reserved1 |-> pkt.data[2],
   reserved2 |-> pkt.data[3],
   year      |-> pkt.data[4],
   month     |-> pkt.data[5],
   day       |-> pkt.data[6],
   hour      |-> pkt.data[7],
   minute    |-> pkt.data[8],
   reserved3 |-> pkt.data[9],
   reserved4 |-> pkt.data[10]]

\* hp_packetdata_t::from_type(value): the struct written back over the
\* first sizeof(clock_time_t) bytes; the other bytes and data_len are kept
FromType(pkt, v) ==
  [pkt EXCEPT !.data = [i \in 1..FrameDataLength |->
                          IF i <= Len(PayloadFields) THEN v[PayloadFields[i]]
                          ELSE pkt.data[i]]]

RECURSIVE SumBytes(_, _)
SumBytes(d, n) == IF n = 0 THEN 0 ELSE (d[n] + SumBytes(d, n - 1)) % 256

\* the protocol checksum over the bytes before the trailing checksum byte
Checksum(d, len) == SumBytes(d, len - 1)

\* BaseFrame::is_checksum_valid()
IsChecksumValid(pkt) ==
  pkt.data_len >= 2 /\ pkt.data[pkt.data_len] = Checksum(pkt.data, pkt.data_len)

\* BaseFrame::is_size_valid() for the Clock frame: the full frame was captured
IsSizeValid(pkt) == pkt.data_len = FrameDataLength

---------------------------------------------------------------------------
(* clock_time *)

\* operator== comparing a reserved byte as well
ClockEqReserved(a, b) ==
  /\ a.id = b.id
  /\ a.reserved1 = b.reserved1
  /\ a.year = b.year
  /\ a.month = b.month
  /\ a.day = b.day
  /\ a.hour = b.hour
  /\ a.minute = b.minute

\* clock_time::operator==: the reserved bytes are not compared
ClockEq(a, b) ==
  /\ a.id = b.id
  /\ a.year = b.year
  /\ a.month = b.month
  /\ a.day = b.day
  /\ a.hour = b.hour
  /\ a.minute = b.minute

\* clock_time::operator!=
ClockNe(a, b) == ~ClockEq(a, b)

Digit(n) == <<"0", "1", "2", "3", "4", "5", "6", "7", "8", "9">>[n + 1]

RECURSIVE Digits(_)
Digits(n) == IF n < 10 THEN <<Digit(n)>> ELSE Digits(n \div 10) \o <<Digit(n % 10)>>

RECURSIVE PadLeft(_, _)
PadLeft(s, w) == IF Len(s) >= w THEN s ELSE PadLeft(<<"0">> \o s, w)

\* oss << std::setw(w) << std::setfill('0') << static_cast<int>(n):
\* at least w characters, never cut
SetW(n, w) == PadLeft(Digits(n), w)

\* clock_time::format(): "YYYY/MM/DD - HH:MM"
ClockFormat(v) ==
  SetW(v.year, 4) \o <<"/">> \o SetW(v.month, 2) \o <<"/">> \o SetW(v.day, 2)
    \o <<" ", "-", " ">> \o SetW(v.hour, 2) \o <<":">> \o SetW(v.minute, 2)

\* CS::invert and CS::invert_rst, the highlight marker pair
CsInvert == "<inv>"

CsInvertRst == "<rst>"

\* CS::set_changed_base_color(changed) followed by CS::str(): the base
\* colour of a changed value leads the text
CsStr(changed, buf) == IF changed THEN <<"<chg>">> \o buf ELSE buf

Min(a, b) == IF a < b THEN a ELSE b

\* the loop of diff showing the reference's character where the texts differ
RECURSIVE DiffLoopShowsRef(_, _, _, _, _)
DiffLoopShowsRef(ref, cur, i, n, changed) ==
  IF i > n THEN <<>>
  ELSE (IF ref[i] # cur[i]
          THEN (IF changed THEN <<CsInvert, ref[i], CsInvertRst>> ELSE <<ref[i]>>)
          ELSE <<cur[i]>>)
       \o DiffLoopShowsRef(ref, cur, i + 1, n, changed)

\* the loop of diff marking every character of a changed text
RECURSIVE DiffLoopMarkAll(_, _, _, _, _)
DiffLoopMarkAll(ref, cur, i, n, changed) ==
  IF i > n THEN <<>>
  ELSE (IF changed THEN <<CsInvert, cur[i], CsInvertRst>> ELSE <<cur[i]>>)
       \o DiffLoopMarkAll(ref, cur, i + 1, n, changed)

\* the loop of clock_time::diff over the first n characters
RECURSIVE DiffLoop(_, _, _, _, _)
DiffLoop(ref, cur, i, n, changed) ==
  IF i > n THEN <<>>
  ELSE (IF ref[i] # cur[i]
          THEN (IF changed THEN <<CsInvert, cur[i], CsInvertRst>> ELSE <<cur[i]>>)
          ELSE <<cur[i]>>)
       \o DiffLoop(ref, cur, i + 1, n, changed)

\* diff appending the remainder of whichever text is longer
ClockDiffLonger(val, reference) ==
  LET ref == ClockFormat(reference)
      cur == ClockFormat(val)
      changed == ref # cur
      n == Min(Len(ref), Len(cur))
      rest == IF Len(cur) > n THEN SubSeq(cur, n + 1, Len(cur))
              ELSE SubSeq(ref, n + 1, Len(ref))
  IN  CsStr(changed, DiffLoop(ref, cur, 1, n, changed) \o rest)

\* clock_time::diff(reference, separator = "")
ClockDiff(val, reference) ==
  LET ref == ClockFormat(reference)
      cur == ClockFormat(val)
      changed == ref # cur
      n == Min(Len(ref), Len(cur))
      rest == IF Len(cur) > n THEN SubSeq(cur, n + 1, Len(cur)) ELSE <<>>
  IN  CsStr(changed, DiffLoop(ref, cur, 1, n, changed) \o rest)

Leaps(y) == (y \div 4) - (y \div 100) + (y \div 400)

IsLeap(y) == (y % 4 = 0 /\ y % 100 # 0) \/ y % 400 = 0

DaysBeforeMonth(y, m) ==
  <<0, 31, 59, 90, 120, 151, 181, 212, 243, 273, 304, 334>>[m + 1]
    + (IF m >= 2 /\ IsLeap(y) THEN 1 ELSE 0)

\* std::mktime of the tm built by clock_time::decode(): tm_year counts from
\* 1900, tm_mon from 0, out-of-range tm_mon and tm_mday are normalised;
\* seconds since 1970 with the default (UTC) time zone
MkTime(year, mon, mday, hour, min) ==
  LET y == 1900 + year + (mon \div 12)
      m == mon % 12
      days == 365 * (y - 1970) + Leaps(y - 1) - Leaps(1969)
                + DaysBeforeMonth(y, m) + (mday - 1)
  IN  ((days * 24 + hour) * 60 + min) * 60

\* clock_time::decode()
ClockDecode(v) == MkTime(v.year, v.month, v.day, v.hour, v.minute)

---------------------------------------------------------------------------
(* FrameClock: the code of each member, as functions of the fields *)

\* BaseFrame::stage(base): the raw packet of base is copied in
StagePacket(pkt, base) == base

\* stage() dropping the payload of a frame whose checksum is wrong
StageDataChecked(d, pkt) == IF IsChecksumValid(pkt) THEN Some(AsType(pkt)) ELSE Nullopt

\* stage() decoding only into an empty data_
StageDataKeep(d, pkt) == IF HasValue(d) THEN d ELSE Some(AsType(pkt))

\* stage(): data_ is the payload decoded from the packet just copied
StageData(d, pkt) == Some(AsType(pkt))

\* stage() shifting data_ into prev_data_
StagePrevShift(d, p) == d

\* stage() does not assign prev_data_
StagePrev(d, p) == p

\* transfer() that assigns prev_data_ only while it is empty
TransferPrevOnce(d, p) == IF HasValue(p) THEN p ELSE d

\* transfer() that never assigns prev_data_
TransferPrevNever(d, p) == p

\* transfer(): prev_data_ = data_ when data_ has a value
TransferPrev(d, p) == IF HasValue(d) THEN d ELSE p

\* transfer() moving data_ out
TransferDataMoved(d, p) == Nullopt

\* transfer() does not assign data_
TransferData(d, p) == d

\* finalize() that leaves the packet as it is
FinalizePacketSkip(pkt, d) == pkt

\* finalize(): the packet afterwards, data_ encoded into it when it has a value
FinalizePacket(pkt, d) == IF HasValue(d) THEN FromType(pkt, Value(d)) ELSE pkt

\* sizeof(packet.data): the capacity of the packet buffer
PacketCapacity == FrameDataLength

\* operator= taking the template's length as it comes
AssignBytesUnclamped(pkt, tmpl) ==
  [data |-> [i \in 1..PacketCapacity |-> IF i <= Len(tmpl) THEN tmpl[i] ELSE pkt.data[i]],
   data_len |-> Len(tmpl)]

\* BaseFrame::operator=(const unsigned char (&base_data)[N]): data_len is N
\* clamped to the capacity, and that many bytes are copied over the buffer
AssignBytes(pkt, tmpl) ==
  LET n == IF Len(tmpl) <= PacketCapacity THEN Len(tmpl) ELSE PacketCapacity
  IN  [data |-> [i \in 1..PacketCapacity |-> IF i <= n THEN tmpl[i] ELSE pkt.data[i]],
       data_len |-> n]

\* is_changed() without the comparison of the two payloads
IsChangedPresence(d, p) == ~HasValue(p) \/ ~HasValue(d)

\* is_changed()
IsChanged(d, p) == ~HasValue(p) \/ ~HasValue(d) \/ ClockNe(Value(d), Value(p))

\* has_previous_data()
HasPreviousData(d, p) == HasValue(d) /\ HasValue(p)

\* matches() that also wants the full frame length
MatchesSized(specialized, base) ==
  GetType(base) = FRAME_ID_CLOCK /\ IsSizeValid(base)

\* FrameClock::matches(specialized, base)
Matches(specialized, base) == GetType(base) = FRAME_ID_CLOCK

\* parse() without the has_value() guard
ParseTimeUnguarded(d, t) ==
  IF HasValue(d) THEN ClockDecode(Value(d)) ELSE ClockDecode([year |-> 70, month |-> 0, day |-> 2, hour |-> 0, minute |-> 0])

\* parse() that never writes
ParseTimeStale(d, t) == t

\* FrameClock::parse(hp_data): the value of hp_data.time afterwards
ParseTime(d, t) == IF HasValue(d) THEN ClockDecode(Value(d)) ELSE t

\* FrameClock::parse writes hp_data.time
ParseWrites(d) == HasValue(d)

NA == <<"N", "/", "A">>

\* FrameClock::format(val, ref)
Format2(val, ref) == ClockDiff(val, ref)

\* format() ignoring no_diff
FormatRefAlwaysPrev(no_diff, cur, p) == ValueOr(p, cur)

\* the reference FrameClock::format(no_diff) chooses
FormatRef(no_diff, cur, p) == IF no_diff THEN cur ELSE ValueOr(p, cur)

\* FrameClock::format(no_diff)
Format(no_diff, d, p) ==
  IF ~HasValue(d) THEN NA
  ELSE Format2(Value(d), FormatRef(no_diff, Value(d), p))

\* format_prev() rendering previous against current
FormatPrevAgainstCurrent(p) ==
  IF ~HasValue(p) THEN NA ELSE Format2(Value(p), ValueOr(data_, Value(p)))

\* FrameClock::format_prev()
FormatPrev(p) == IF ~HasValue(p) THEN NA ELSE Format2(Value(p), Value(p))

\* control() answering with a frame once a payload is known
ControlResultEcho(call, d, p) == d

\* FrameClock::control(call): esphome::nullopt, no outgoing frame
ControlResult(call, d, p) == Nullopt

---------------------------------------------------------------------------
(* Inputs *)

WithChecksum(d) == [d EXCEPT ![FrameDataLength] = Checksum(d, FrameDataLength)]

\* a Clock frame: year 24, month 1, day 2, 03:04
Template == WithChecksum(<<FRAME_ID_CLOCK, 0, 0, 24, 1, 2, 3, 4, 0, 0, 0, 0>>)

\* the template with one byte before the checksum changed, checksum redone
Perturbed(i, dl) == WithChecksum([Template EXCEPT ![i] = (@ + dl) % 256])

\* the template with a wrong checksum byte
BadChecksum(dl) == [Template EXCEPT ![FrameDataLength] = (@ + dl) % 256]

\* a capture that stopped k bytes short: the rest of the buffer is zero
Short(k) ==
  [i \in 1..FrameDataLength |-> IF i <= FrameDataLength - k THEN Template[i] ELSE 0]

RawFrames ==
  {[data |-> Template, data_len |-> FrameDataLength]}
    \cup {[data |-> Perturbed(i, dl), data_len |-> FrameDataLength] :
             i \in 1..(FrameDataLength - 1), dl \in 1..MaxDelta}
    \cup {[data |-> BadChecksum(dl), data_len |-> FrameDataLength] : dl \in 1..MaxDelta}
    \cup {[data |-> Short(k), data_len |-> FrameDataLength - k] : k \in 1..MaxShort}

\* HWPCall: the command requests
Calls == {"mode", "target_temperature"}

---------------------------------------------------------------------------
(* The state machine *)

\* BaseFrame(): an empty packet
EmptyPacket == [data |-> [i \in 1..FrameDataLength |-> 0], data_len |-> 0]

Ret(op, arg, flag, out) == [op |-> op, arg |-> arg, flag |-> flag, out |-> out]

\* the frame under construction before anything is built
CodecIdle ==
  /\ bf = EmptyPacket
  /\ bd = Nullopt
  /\ bret = [op |-> "new", arg |-> <<>>]

\* no payload rendered
DiffIdle ==
  /\ dv = Nullopt
  /\ dr = Nullopt
  /\ dret = [op |-> "new", flag |-> FALSE, out |-> <<>>]

FrameClasses == 1..MaxClasses

\* BaseFrame::register_frame_class(factory, matches): the registry with the
\* entry appended, its instance not yet created
RegisterFrameClass(reg, factory, match_method) ==
  Append(reg, [factory |-> factory, matches |-> match_method, instance |-> Nullopt])

\* the id register_frame_class returns: the index of the appended entry
RegisteredId(reg) == Len(reg)

\* a declaration that leaves class_type_id as the loader zeroed it
ClassTypeIdZero(ids, c, id) == ids

\* size_t FullClassName::class_type_id = BaseFrame::register_frame_class(...)
ClassTypeId(ids, c, id) == [ids EXCEPT ![c] = id]

\* get<T>() returning the instance of the first entry whatever T is
GetInstanceFirst(reg, id) == IF 0 < Len(reg) THEN reg[1].instance ELSE Nullopt

\* BaseFrame::get<T>(), id being T::class_type_id; indices start at 0
GetInstance(reg, id) == IF id < Len(reg) THEN reg[id + 1].instance ELSE Nullopt

\* the index of the first entry whose matcher accepts a frame of class c,
\* 0 when no matcher does
FirstMatch(reg, c) ==
  IF \E i \in 1..Len(reg) : reg[i].matches = c
    THEN CHOOSE i \in 1..Len(reg) :
           reg[i].matches = c /\ \A j \in 1..(i - 1) : reg[j].matches # c
    ELSE 0

\* the instance of an entry after a frame is dispatched to it: created by
\* the factory when absent, then staged
StagedInstance(entry) ==
  LET inst == IF HasValue(entry.instance) THEN Value(entry.instance)
              ELSE [class |-> entry.factory, stages |-> 0, transferred |-> FALSE]
  IN  Some([inst EXCEPT !.stages = inst.stages + 1, !.transferred = FALSE])

\* the registry before any class is registered
RegistryIdle ==
  /\ registry = <<>>
  /\ class_type_id = [c \in FrameClasses |-> 0]
  /\ rret = [op |-> "new", arg |-> 0, out |-> Nullopt]
  /\ observed = {}

\* FrameClock(): BaseFrame(), data_(), prev_data_()
InitClock ==
  /\ packet = EmptyPacket
  /\ data_ = Nullopt
  /\ prev_data_ = Nullopt
  /\ hp_time = 0
  /\ ret = Ret("new", Nullopt, FALSE, <<>>)
  /\ stages = 0
  /\ curStamp = Nullopt
  /\ prevStamp = Nullopt
  /\ transferred = FALSE
  /\ phase = 0
  /\ hist = <<>>

Init ==
  /\ InitClock
  /\ CodecIdle
  /\ DiffIdle
  /\ RegistryIdle

\* what stage(base) does to the instance and to the record of the calls
StageEffect(base) ==
  /\ stages < MaxStages
  /\ packet' = StagePacket(packet, base)
  /\ data_' = StageData(data_, StagePacket(packet, base))
  /\ prev_data_' = StagePrev(data_, prev_data_)
  /\ stages' = stages + 1
  /\ curStamp' = Some(stages + 1)
  /\ prevStamp' = StagePrev(curStamp, prevStamp)
  /\ phase' = IF phase = 2 THEN 3 ELSE 1
  /\ hist' = IF phase = 2 THEN <<hist[1], base>> ELSE <<base>>
  /\ UNCHANGED <<hp_time, transferred>>

\* stage(base)
Stage(base) ==
  /\ StageEffect(base)
  /\ ret' = Ret("stage", Some(base), FALSE, <<>>)
  /\ UNCHANGED <<codecVars, diffVars, regVars>>

\* transfer()
Transfer ==
  /\ prev_data_' = TransferPrev(data_, prev_data_)
  /\ data_' = TransferData(data_, prev_data_)
  /\ prevStamp' = TransferPrev(curStamp, prevStamp)
  /\ curStamp' = TransferData(curStamp, prevStamp)
  /\ transferred' = (transferred \/ stages > 0)
  /\ phase' = IF phase \in {1, 3} THEN 2 ELSE 0
  /\ hist' = IF phase \in {1, 3} THEN <<hist[Len(hist)]>> ELSE <<>>
  /\ ret' = Ret("transfer", Nullopt, FALSE, <<>>)
  /\ UNCHANGED <<packet, hp_time, stages>>
  /\ UNCHANGED <<codecVars, diffVars, regVars>>

\* parse(hp_data)
Parse ==
  /\ hp_time' = ParseTime(data_, hp_time)
  /\ ret' = Ret("parse", Nullopt, ParseWrites(data_), <<>>)
  /\ UNCHANGED <<packet, data_, prev_data_, stages, curStamp, prevStamp,
                 transferred, phase, hist>>
  /\ UNCHANGED <<codecVars, diffVars, regVars>>

\* control(call)
Control(call) ==
  /\ ret' = Ret("control", Nullopt, FALSE, ControlResult(call, data_, prev_data_))
  /\ UNCHANGED <<packet, data_, prev_data_, hp_time, stages, curStamp, prevStamp,
                 transferred, phase, hist>>
  /\ UNCHANGED <<codecVars, diffVars, regVars>>

\* is_changed()
IsChangedCall ==
  /\ ret' = Ret("is_changed", Nullopt, IsChanged(data_, prev_data_), <<>>)
  /\ UNCHANGED <<packet, data_, prev_data_, hp_time, stages, curStamp, prevStamp,
                 transferred, phase, hist>>
  /\ UNCHANGED <<codecVars, diffVars, regVars>>

\* finalize()
Finalize ==
  /\ packet' = FinalizePacket(packet, data_)
  /\ ret' = Ret("finalize", Nullopt, HasValue(data_), <<>>)
  /\ UNCHANGED <<data_, prev_data_, hp_time, stages, curStamp, prevStamp,
                 transferred, phase, hist>>
  /\ UNCHANGED <<codecVars, diffVars, regVars>>

\* format(no_diff)
FormatCall(no_diff) ==
  /\ ret' = Ret("format", Nullopt, no_diff, Format(no_diff, data_, prev_data_))
  /\ UNCHANGED <<packet, data_, prev_data_, hp_time, stages, curStamp, prevStamp,
                 transferred, phase, hist>>
  /\ UNCHANGED <<codecVars, diffVars, regVars>>

\* format_prev()
FormatPrevCall ==
  /\ ret' = Ret("format_prev", Nullopt, FALSE, FormatPrev(prev_data_))
  /\ UNCHANGED <<packet, data_, prev_data_, hp_time, stages, curStamp, prevStamp,
                 transferred, phase, hist>>
  /\ UNCHANGED <<codecVars, diffVars, regVars>>

\* the dispatch of a captured frame: the Clock matcher decides whether the
\* frame is staged into the Clock instance or falls back to the generic frame
Dispatch(base) ==
  /\ IF Matches([packet |-> packet, data_ |-> data_, prev_data_ |-> prev_data_], base)
       THEN StageEffect(base)
       ELSE UNCHANGED <<packet, data_, prev_data_, hp_time, stages, curStamp,
                        prevStamp, transferred, phase, hist>>
  /\ ret' = Ret("dispatch", Some(base),
                Matches([packet |-> packet, data_ |-> data_, prev_data_ |-> prev_data_],
                        base), <<>>)
  /\ UNCHANGED <<codecVars, diffVars, regVars>>

Next ==
  \/ \E base \in RawFrames : Stage(base)
  \/ Transfer
  \/ Parse
  \/ \E call \in Calls : Control(call)
  \/ \E no_diff \in BOOLEAN : FormatCall(no_diff)
  \/ FormatPrevCall
  \/ IsChangedCall
  \/ Finalize
  \/ \E base \in RawFrames : Dispatch(base)

Spec == Init /\ [][Next]_vars

---------------------------------------------------------------------------
(* A frame built for sending: byte templates, data() and finalize() *)

\* the lengths of the byte templates: short ones, the capacity, and beyond it
TemplateLengths ==
  {1, PacketCapacity \div 4, PacketCapacity \div 2, PacketCapacity - 1}
    \cup PacketCapacity..(PacketCapacity + MaxOver)

\* the byte templates: N bytes of a pattern
ByteTemplates ==
  {[i \in 1..n |-> (FRAME_ID_CLOCK + seed * (i - 1)) % 256] :
     n \in TemplateLengths, seed \in 1..MaxSeed}

\* the payloads written through data(): one field of the template's payload
\* set to its least or greatest value
SetPayloads ==
  {[AsType([data |-> Template]) EXCEPT ![PayloadFields[i]] = b] :
     i \in 1..Len(PayloadFields), b \in {0, 255}}

CodecInit ==
  /\ InitClock
  /\ CodecIdle
  /\ DiffIdle
  /\ RegistryIdle

\* frame = template: BaseFrame::operator= on the frame
Assign(tmpl) ==
  /\ bf' = AssignBytes(bf, tmpl)
  /\ bret' = [op |-> "assign", arg |-> tmpl]
  /\ UNCHANGED <<bd, clockVars, diffVars, regVars>>

\* FrameClock(template): BaseFrame(template), then data_ decoded from it
Construct(tmpl) ==
  /\ bf' = AssignBytes(EmptyPacket, tmpl)
  /\ bd' = Some(AsType(AssignBytes(EmptyPacket, tmpl)))
  /\ bret' = [op |-> "construct", arg |-> <<>>]
  /\ UNCHANGED <<clockVars, diffVars, regVars>>

\* frame.data() = v: the payload changed through the reference data() returns
SetData(v) ==
  /\ HasValue(bd)
  /\ bd' = Some(v)
  /\ bret' = [op |-> "set_data", arg |-> <<>>]
  /\ UNCHANGED <<bf, clockVars, diffVars, regVars>>

\* frame.finalize()
FinalizeFrame ==
  /\ bf' = FinalizePacket(bf, bd)
  /\ bret' = [op |-> "finalize", arg |-> <<>>]
  /\ UNCHANGED <<bd, clockVars, diffVars, regVars>>

\* frame.stage(copy of frame): the frame's own bytes staged again
Restage ==
  /\ bf' = StagePacket(bf, bf)
  /\ bd' = StageData(bd, StagePacket(bf, bf))
  /\ bret' = [op |-> "restage", arg |-> <<>>]
  /\ UNCHANGED <<clockVars, diffVars, regVars>>

AssignNext == \E tmpl \in ByteTemplates : Assign(tmpl)

SpecAssign == CodecInit /\ [][AssignNext]_vars

CodecNext ==
  \/ \E tmpl \in ByteTemplates : Construct(tmpl)
  \/ \E v \in SetPayloads : SetData(v)
  \/ FinalizeFrame
  \/ Restage

SpecCodec == CodecInit /\ [][CodecNext]_vars

---------------------------------------------------------------------------
(***************************************************************************)
(* Rendering: format(no_diff), format_prev() and diff on a frame whose     *)
(* current and previous payloads are drawn from the payloads whose fields  *)
(* render in two and in three characters.                                  *)
(***************************************************************************)
\* bytes rendered in two characters, equal or differing in one or both, and
\* bytes rendered in three
DiffBytes == {3, 4, 13, 100 + MaxWide}

DiffPayloads ==
  {[AsType([data |-> Template]) EXCEPT !.month = mo, !.day = d, !.hour = h, !.minute = mi] :
     mo \in {1, 100 + MaxWide}, d \in {2, 100 + MaxWide}, h \in DiffBytes, mi \in DiffBytes}

\* a frame after stage() or transfer(): current present, previous present or not
DiffInit ==
  /\ InitClock /\ CodecIdle /\ RegistryIdle
  /\ dv \in {Some(v) : v \in DiffPayloads}
  /\ dr \in {Nullopt} \cup {Some(v) : v \in DiffPayloads}
  /\ dret = [op |-> "new", flag |-> FALSE, out |-> <<>>]

\* format(no_diff)
DiffFormat(no_diff) ==
  /\ dret' = [op |-> "format", flag |-> no_diff, out |-> Format(no_diff, dv, dr)]
  /\ UNCHANGED <<dv, dr, clockVars, codecVars, regVars>>

\* format_prev()
DiffFormatPrev ==
  /\ dret' = [op |-> "format_prev", flag |-> FALSE, out |-> FormatPrev(dr)]
  /\ UNCHANGED <<dv, dr, clockVars, codecVars, regVars>>

\* data_->diff(*prev_data_)
DiffCall ==
  /\ HasValue(dr)
  /\ dret' = [op |-> "diff", flag |-> FALSE, out |-> ClockDiff(Value(dv), Value(dr))]
  /\ UNCHANGED <<dv, dr, clockVars, codecVars, regVars>>

DiffNext ==
  \/ \E no_diff \in BOOLEAN : DiffFormat(no_diff)
  \/ DiffFormatPrev
  \/ DiffCall

SpecDiff == DiffInit /\ [][DiffNext]_vars

(***************************************************************************)
(* The frame registry: the class declarations run while the program is     *)
(* loaded, in any order; frames are dispatched once every class is         *)
(* registered; get<T>() may be called at any time.                         *)
(***************************************************************************)
\* CLASS_ID_DECLARATION(c), run once for the class
ClassIdDeclaration(c) ==
  /\ \A i \in 1..Len(registry) : registry[i].factory # c
  /\ registry' = RegisterFrameClass(registry, c, c)
  /\ class_type_id' = ClassTypeId(class_type_id, c, RegisteredId(registry))
  /\ rret' = [op |-> "register", arg |-> c, out |-> Nullopt]
  /\ UNCHANGED <<observed, clockVars, codecVars, diffVars>>

\* the dispatch of a frame of class c; class 0 is a frame no matcher accepts
RegDispatch(c) ==
  /\ Len(registry) = MaxClasses
  /\ LET i == FirstMatch(registry, c)
     IN  IF i = 0
           THEN UNCHANGED <<registry, observed>>
           ELSE /\ HasValue(registry[i].instance) =>
                     Value(registry[i].instance).stages < MaxFrames
                /\ registry' = [registry EXCEPT ![i].instance = StagedInstance(registry[i])]
                /\ observed' = observed \cup {c}
  /\ rret' = [op |-> "dispatch", arg |-> c, out |-> Nullopt]
  /\ UNCHANGED <<class_type_id, clockVars, codecVars, diffVars>>

\* transfer() on the cached instance of class c
RegTransfer(c) ==
  /\ HasValue(GetInstance(registry, class_type_id[c]))
  /\ registry' = [registry EXCEPT ![class_type_id[c] + 1].instance =
                    Some([Value(@) EXCEPT !.transferred = TRUE])]
  /\ rret' = [op |-> "transfer", arg |-> c, out |-> Nullopt]
  /\ UNCHANGED <<class_type_id, observed, clockVars, codecVars, diffVars>>

\* get<T>() for the class c
Get(c) ==
  /\ rret' = [op |-> "get", arg |-> c, out |-> GetInstance(registry, class_type_id[c])]
  /\ UNCHANGED <<registry, class_type_id, observed, clockVars, codecVars, diffVars>>

RegistryNext ==
  \/ \E c \in FrameClasses : ClassIdDeclaration(c)
  \/ \E c \in FrameClasses \cup {0} : RegDispatch(c)
  \/ \E c \in FrameClasses : RegTransfer(c)
  \/ \E c \in FrameClasses : Get(c)

SpecRegistry == Init /\ [][RegistryNext]_vars

(* Properties *)

Cur == Value(data_)

Prev == Value(prev_data_)

Arg == Value(ret.arg)

\* the payloads a and b differ in one of the fields of fs
Differ(a, b, fs) == \E f \in fs : a[f] # b[f]

AllFields == ComparedFields \cup ReservedFields

HasMarker(out) == \E i \in 1..Len(out) : out[i] = CsInvert

\* C1: is_changed() returns true exactly when there is no previous value, or
\* no current value, or current and previous differ in one of id, year,
\* month, day, hour, minute; a difference in the reserved bytes alone never
\* makes it true.
C1_IsChangedExact ==
  ret.op = "is_changed" =>
    /\ ret.flag <=> (\/ ~HasValue(prev_data_)
                     \/ ~HasValue(data_)
                     \/ Differ(Cur, Prev, ComparedFields))
    /\ (HasValue(prev_data_) /\ HasValue(data_) /\ ~Differ(Cur, Prev, ComparedFields)
          /\ Differ(Cur, Prev, ReservedFields)) => ~ret.flag

\* is_changed() has answered false for payloads that differ in a reserved byte
C1_Witness ==
  /\ ret.op = "is_changed"
  /\ HasValue(prev_data_) /\ HasValue(data_)
  /\ Differ(Cur, Prev, ReservedFields)
  /\ ~ret.flag

\* C2 as stated: a variant never staged reports is_changed(); after
\* stage(p), transfer(), stage(q), is_changed() is false when q's payload is
\* identical to p's and true when it differs from p's in any field.
C2_AnyFieldChanges ==
  ret.op = "is_changed" =>
    /\ stages = 0 => ret.flag
    /\ phase = 3 => (ret.flag <=> Differ(AsType(hist[1]), AsType(hist[2]), AllFields))

\* C2 amended: as above, with "differs in any field" read as "differs in one
\* of the compared fields id, year, month, day, hour, minute"; a payload that
\* differs in reserved bytes only reports is_changed() == false.
C2_ComparedFieldChanges ==
  ret.op = "is_changed" =>
    /\ stages = 0 => ret.flag
    /\ phase = 3 =>
         (ret.flag <=> Differ(AsType(hist[1]), AsType(hist[2]), ComparedFields))

\* is_changed() has answered false after stage(p), transfer(), stage(p') with
\* the same payload in another raw frame
C2_Witness ==
  /\ ret.op = "is_changed"
  /\ phase = 3
  /\ hist[1] # hist[2]
  /\ AsType(hist[1]) = AsType(hist[2])
  /\ ~ret.flag

\* C3 as stated: previous is present only if a transfer() has completed after
\* a stage(), and it then holds the payload staged strictly before the
\* payload now in current.
C3_PreviousStrictlyOlder ==
  HasValue(prev_data_) =>
    /\ transferred
    /\ HasValue(data_)
    /\ Value(prevStamp) < Value(curStamp)

\* C3 amended: previous is present only if a transfer() has completed after a
\* stage(), and it then holds a payload staged no later than the one in
\* current: the very payload of current from a transfer() until the next
\* stage(), an earlier one after that stage().
C3_PreviousNotNewer ==
  /\ HasValue(prev_data_) <=> HasValue(prevStamp)
  /\ HasValue(data_) <=> HasValue(curStamp)
  /\ HasValue(prev_data_) =>
       /\ transferred
       /\ HasValue(data_)
       /\ Value(prevStamp) <= Value(curStamp)
       /\ Value(prevStamp) = Value(curStamp) => prev_data_ = data_
       /\ ret.op = "transfer" => Value(prevStamp) = Value(curStamp)
       /\ (ret.op = "stage" \/ (ret.op = "dispatch" /\ ret.flag))
            => Value(prevStamp) < Value(curStamp)

\* previous holds the payload of an earlier stage() than current's
C3_Witness ==
  /\ HasValue(prev_data_)
  /\ transferred
  /\ Value(prevStamp) < Value(curStamp)
  /\ prev_data_ # data_

\* C4: after stage(a); transfer(); stage(b), previous is the payload decoded
\* from a and current the payload decoded from b; transfer() never changes
\* current.
C4_TransferAdvances ==
  /\ [](phase = 3 => /\ prev_data_ = Some(AsType(hist[1]))
                     /\ data_ = Some(AsType(hist[2])))
  /\ [][ret'.op = "transfer" => data_' = data_]_vars

\* stage(a); transfer(); stage(b) has happened with different payloads
C4_Witness ==
  /\ phase = 3
  /\ ret.op = "stage"
  /\ AsType(hist[1]) # AsType(hist[2])
  /\ Prev = AsType(hist[1])

\* C5: stage(rawFrame) replaces current with the payload decoded from
\* rawFrame and leaves previous as it was, absent or present.
C5_StageReplacesCurrent ==
  [][ret'.op = "stage" =>
       /\ data_' = Some(AsType(Value(ret'.arg)))
       /\ prev_data_' = prev_data_]_vars

\* stage() has replaced a current value while a different previous is held
C5_Witness ==
  /\ ret.op = "stage"
  /\ stages >= 2
  /\ HasValue(prev_data_)
  /\ Cur = AsType(Arg)
  /\ Prev # Cur

\* C6 as stated: parse() writes the time field only if the frame most
\* recently staged was complete and checksum-valid.
C6_ParseOnlyValidFrame ==
  (ret.op = "parse" /\ ret.flag) => (IsSizeValid(packet) /\ IsChecksumValid(packet))

\* C6 amended: the time field is not written until a frame has been staged:
\* parse() writes it only if current is present, then with the time decoded
\* from the frame most recently staged, whether or not that frame is complete
\* and checksum-valid.
C6_ParseOnlyAfterStage ==
  /\ stages = 0 => hp_time = 0
  /\ (ret.op = "parse" /\ ret.flag) =>
       /\ stages > 0
       /\ HasValue(data_)
       /\ hp_time = ClockDecode(AsType(packet))
  /\ (ret.op = "parse" /\ ~ret.flag) => stages = 0

\* parse() has written the time of a full-length frame whose checksum is wrong
C6_Witness ==
  /\ ret.op = "parse"
  /\ ret.flag
  /\ IsSizeValid(packet)
  /\ ~IsChecksumValid(packet)
  /\ hp_time = ClockDecode(AsType(packet))

\* C7 as stated: a frame of type 0xCF whose captured length is not the Clock
\* frame's is not selected by the Clock matcher and does not update the Clock
\* variant's current value.
C7_SizeMismatchFallsBack ==
  (ret.op = "dispatch" /\ GetType(Arg) = FRAME_ID_CLOCK /\ ~IsSizeValid(Arg)) =>
    (~ret.flag /\ packet # Arg)

\* C8: the Clock matcher accepts a frame exactly when its type-id byte is
\* 0xCF, whatever its other bytes, its length and the instance it is asked
\* about; a dispatched 0xCF frame is staged into the Clock variant.
C8_DispatchDeterminism ==
  ret.op = "dispatch" =>
    /\ ret.flag <=> (Arg.data[1] = FRAME_ID_CLOCK)
    /\ ret.flag => (packet = Arg /\ data_ = Some(AsType(Arg)))

\* a 0xCF frame with a wrong checksum or a short length has been dispatched
\* to the Clock variant
C8_Witness ==
  /\ ret.op = "dispatch"
  /\ ret.flag
  /\ ~IsSizeValid(Arg) \/ ~IsChecksumValid(Arg)
  /\ HasValue(prev_data_)

\* a frame of another type has been rejected
C8_WitnessRejected ==
  /\ ret.op = "dispatch"
  /\ ~ret.flag
  /\ Arg.data[1] # FRAME_ID_CLOCK

\* C9: control(call) returns no outgoing frame for every request and state
\* and leaves current and previous unchanged.
C9_ControlReadOnly ==
  [][ret'.op = "control" =>
       /\ ret'.out = Nullopt
       /\ data_' = data_
       /\ prev_data_' = prev_data_]_vars

\* control() has answered with current and previous both present
C9_Witness ==
  /\ ret.op = "control"
  /\ ret.out = Nullopt
  /\ HasValue(data_)
  /\ HasValue(prev_data_)

\* C10: with a current value, format(no_diff) renders it against previous
\* when no_diff is false and previous exists, and against itself otherwise,
\* and then the text holds no highlight marker.
C10_FormatReference ==
  (ret.op = "format" /\ HasValue(data_)) =>
    IF ~ret.flag /\ HasValue(prev_data_)
      THEN ret.out = ClockDiff(Cur, Prev)
      ELSE ret.out = ClockDiff(Cur, Cur) /\ ~HasMarker(ret.out)

\* format(true) has rendered a current value whose text differs from
\* previous's, without a marker
C10_Witness ==
  /\ ret.op = "format"
  /\ ret.flag
  /\ HasValue(data_) /\ HasValue(prev_data_)
  /\ ClockFormat(Cur) # ClockFormat(Prev)
  /\ ~HasMarker(ret.out)

\* format(false) has rendered a current value with markers against previous
C10_WitnessDiff ==
  /\ ret.op = "format"
  /\ ~ret.flag
  /\ HasValue(data_) /\ HasValue(prev_data_)
  /\ HasMarker(ret.out)

\* the text without the highlight markers and the base colour
RECURSIVE Plain(_)
Plain(out) ==
  IF out = <<>> THEN <<>>
  ELSE IF Head(out) \in {CsInvert, CsInvertRst, "<chg>"} THEN Plain(Tail(out))
  ELSE <<Head(out)>> \o Plain(Tail(out))

\* the positions of the plain text that sit inside a highlight marker pair;
\* 0 stands for a marker that is not part of a pair around one character
RECURSIVE Marked(_, _)
Marked(out, k) ==
  IF out = <<>> THEN {}
  ELSE IF Head(out) = "<chg>" THEN Marked(Tail(out), k)
  ELSE IF Head(out) = CsInvert
    THEN (IF Len(out) >= 3 /\ out[2] \notin {CsInvert, CsInvertRst} /\ out[3] = CsInvertRst
            THEN {k} \cup Marked(SubSeq(out, 4, Len(out)), k + 1)
            ELSE {0})
  ELSE IF Head(out) = CsInvertRst THEN {0}
  ELSE Marked(Tail(out), k + 1)

DCurText == ClockFormat(Value(dv))

DRefText == ClockFormat(Value(dr))

DiffOut == dret.op = "diff" \/ (dret.op = "format" /\ ~dret.flag)

\* C11: for a current and a previous payload whose formatted texts have the
\* same length, format(false) wraps in a highlight marker pair exactly the
\* positions where the current text differs from the previous text and
\* emits every other character unmarked.
C11_DiffExact ==
  (DiffOut /\ HasValue(dr) /\ Len(DCurText) = Len(DRefText)) =>
    /\ Marked(dret.out, 1) = {i \in 1..Len(DCurText) : DCurText[i] # DRefText[i]}
    /\ Plain(dret.out) = DCurText

\* texts differing in the last minute digit only: that digit alone is marked
C11_Witness ==
  /\ dret.op = "format"
  /\ ~dret.flag
  /\ HasValue(dr)
  /\ Len(DCurText) = Len(DRefText)
  /\ Value(dv).minute = 4
  /\ Value(dr).minute = 3
  /\ Marked(dret.out, 1) = {Len(DCurText)}

\* C18 as stated: when the two texts differ in length the output is the
\* comparison over the common prefix followed by the remainder of the longer
\* of the two texts, unmarked.
C18_AppendsLonger ==
  (DiffOut /\ HasValue(dr) /\ Len(DCurText) # Len(DRefText)) =>
    LET n == Min(Len(DCurText), Len(DRefText))
        longer == IF Len(DCurText) > n THEN DCurText ELSE DRefText
    IN  /\ Plain(dret.out) = SubSeq(DCurText, 1, n) \o SubSeq(longer, n + 1, Len(longer))
        /\ Marked(dret.out, 1) = {i \in 1..n : DCurText[i] # DRefText[i]}

\* C18: when the two texts differ in length the output is the comparison
\* over the common prefix followed by the remainder of the current text,
\* unmarked, when the current text is the longer one, and by nothing when
\* the reference text is the longer one.
C18_AppendsCurrent ==
  (DiffOut /\ HasValue(dr) /\ Len(DCurText) # Len(DRefText)) =>
    LET n == Min(Len(DCurText), Len(DRefText))
        rest == IF Len(DCurText) > n THEN SubSeq(DCurText, n + 1, Len(DCurText)) ELSE <<>>
    IN  /\ Plain(dret.out) = SubSeq(DCurText, 1, n) \o rest
        /\ Marked(dret.out, 1) = {i \in 1..n : DCurText[i] # DRefText[i]}

\* the reference text is the longer one and nothing of it is appended
C18_Witness ==
  /\ DiffOut
  /\ HasValue(dr)
  /\ Len(DRefText) > Len(DCurText)
  /\ Len(Plain(dret.out)) = Len(DCurText)

\* the current text is the longer one and its remainder is appended unmarked
C18_WitnessCurrentLonger ==
  /\ DiffOut
  /\ HasValue(dr)
  /\ Len(DCurText) > Len(DRefText)
  /\ Plain(dret.out) = DCurText
  /\ \A i \in Marked(dret.out, 1) : i >= 1 /\ i <= Len(DRefText)

\* C12: format_prev() returns "N/A" when no previous value exists; otherwise
\* it renders previous diffed against itself: the text of previous, with no
\* highlight marker.
C12_FormatPrev ==
  ret.op = "format_prev" =>
    IF ~HasValue(prev_data_)
      THEN ret.out = NA
      ELSE /\ ret.out = ClockDiff(Prev, Prev)
           /\ ~HasMarker(ret.out)
           /\ Plain(ret.out) = ClockFormat(Prev)

\* format_prev() has rendered a previous value whose text differs from current's
C12_Witness ==
  /\ ret.op = "format_prev"
  /\ HasValue(prev_data_)
  /\ ClockFormat(Prev) # ClockFormat(Cur)
  /\ ret.out = ClockFormat(Prev)

\* C13: parse(hp_data) writes the decoded time exactly when current is
\* present; with current absent the domain state is left as it was; parse
\* never changes current or previous.
C13_ParseProjects ==
  [][ret'.op = "parse" =>
       /\ ret'.flag <=> HasValue(data_)
       /\ HasValue(data_) => hp_time' = ClockDecode(Cur)
       /\ ~HasValue(data_) => hp_time' = hp_time
       /\ data_' = data_
       /\ prev_data_' = prev_data_]_vars

\* parse() has written the time of the current payload
C13_Witness ==
  /\ ret.op = "parse"
  /\ ret.flag
  /\ HasValue(data_)
  /\ hp_time = ClockDecode(Cur)
  /\ hp_time # 0

\* parse() has run with current absent and left the time as constructed
C13_WitnessAbsent ==
  /\ ret.op = "parse"
  /\ ~ret.flag
  /\ ~HasValue(data_)
  /\ hp_time = 0

\* C14: after a byte template of any length N is assigned to a frame,
\* data_len is min(N, capacity) and the first data_len bytes of the buffer
\* are the template's; a longer template is cut to the capacity.
C14_AssignClamps ==
  /\ bf.data_len <= PacketCapacity
  /\ bret.op = "assign" =>
       /\ bf.data_len = Min(Len(bret.arg), PacketCapacity)
       /\ \A i \in 1..bf.data_len : bf.data[i] = bret.arg[i]

\* a template longer than the buffer has been assigned and cut
C14_Witness ==
  /\ bret.op = "assign"
  /\ Len(bret.arg) > PacketCapacity
  /\ bf.data_len = PacketCapacity
  /\ bf.data[PacketCapacity] = bret.arg[PacketCapacity]

C19_PresenceMonotonic ==
  /\ [](HasValue(prev_data_) => HasValue(data_))
  /\ [][HasValue(data_) => HasValue(data_')]_vars
  /\ [][HasPreviousData(data_, prev_data_) => HasPreviousData(data_', prev_data_')]_vars

\* a frame with a wrong checksum has been staged over a present current and
\* previous
C19_Witness ==
  /\ ret.op = "stage"
  /\ ~IsChecksumValid(Arg)
  /\ HasPreviousData(data_, prev_data_)
  /\ stages >= 2

\* C20: a transfer() right after a transfer() changes nothing; right after a
\* transfer() with current present is_changed() is false; a transfer() with
\* current absent leaves previous absent and is_changed() true.
C20_TransferSettles ==
  /\ [][(ret.op = "transfer" /\ ret'.op = "transfer") =>
          (data_' = data_ /\ prev_data_' = prev_data_)]_vars
  /\ []((ret.op = "transfer" /\ HasValue(data_)) =>
          (prev_data_ = data_ /\ ~IsChanged(data_, prev_data_)))
  /\ []((ret.op = "transfer" /\ ~HasValue(data_)) =>
          (~HasValue(prev_data_) /\ IsChanged(data_, prev_data_)))

\* a transfer() has replaced a previous value that differed from current
C20_Witness ==
  /\ ret.op = "transfer"
  /\ stages >= 2
  /\ Value(prevStamp) = 2
  /\ ~IsChanged(data_, prev_data_)

\* a transfer() has run on a fresh variant
C20_WitnessAbsent ==
  /\ ret.op = "transfer"
  /\ ~HasValue(data_)
  /\ ~HasValue(prev_data_)

\* the entries of the registry that were registered for the class c
EntriesOf(reg, c) == {i \in 1..Len(reg) : reg[i].factory = c}

\* the registry without the cached instances
Entries(reg) == [i \in 1..Len(reg) |-> <<reg[i].factory, reg[i].matches>>]

\* C16: get<T>() returns the cached instance of T's entry once a frame of
\* that class has been dispatched, and null when none has been (the class id
\* not being an index of the registry included); get<T>() creates no
\* instance and leaves the registry as it was.
C16_GetCached ==
  /\ [](rret.op = "get" =>
          IF rret.arg \in observed
            THEN /\ HasValue(rret.out)
                 /\ Value(rret.out).class = rret.arg
                 /\ \E i \in EntriesOf(registry, rret.arg) : rret.out = registry[i].instance
            ELSE rret.out = Nullopt)
  /\ [][rret'.op = "get" =>
          (registry' = registry /\ class_type_id' = class_type_id)]_vars

\* get<T>() has returned the instance of the class registered second
C16_Witness ==
  /\ rret.op = "get"
  /\ rret.arg \in observed
  /\ class_type_id[rret.arg] > 0
  /\ HasValue(rret.out)
  /\ Value(rret.out).class = rret.arg
  /\ observed = FrameClasses

\* get<T>() has returned null: before any registration, and for a
\* registered class no frame has matched
C16_WitnessNull ==
  /\ rret.op = "get"
  /\ rret.out = Nullopt
  /\ \/ registry = <<>>
     \/ (Len(registry) = MaxClasses /\ observed # {} /\ rret.arg \notin observed)

\* C17: a registration appends one entry and moves none; every class is
\* registered at most once, and exactly once when frames are dispatched;
\* dispatch, transfer and get add, remove and reorder no entry; the id a
\* registration returned keeps designating the entry of its class.
C17_RegistryAppendOnly ==
  /\ [][rret'.op = "register" =>
          (/\ Len(registry') = Len(registry) + 1
           /\ SubSeq(registry', 1, Len(registry)) = registry)]_vars
  /\ [][rret'.op \in {"dispatch", "transfer", "get"} =>
          (Entries(registry') = Entries(registry) /\ class_type_id' = class_type_id)]_vars
  /\ [](\A c \in FrameClasses :
          /\ Cardinality(EntriesOf(registry, c)) <= 1
          /\ rret.op \in {"dispatch", "transfer"} => Cardinality(EntriesOf(registry, c)) = 1
          /\ EntriesOf(registry, c) # {} => EntriesOf(registry, c) = {class_type_id[c] + 1})

\* every class is registered, FrameClock not first, and frames of every
\* class have been dispatched
C17_Witness ==
  /\ Len(registry) = MaxClasses
  /\ class_type_id[1] > 0
  /\ observed = FrameClasses
  /\ rret.op = "dispatch"
  /\ \A c \in FrameClasses : registry[class_type_id[c] + 1].factory = c

\* C21: with current and previous both present, a format(false) that
\* contains a highlighted character means is_changed() is true; an
\* is_changed() that is false means format(false) highlights nothing.
C21_HighlightImpliesChange ==
  HasPreviousData(data_, prev_data_) =>
    /\ (ret.op = "format" /\ ~ret.flag /\ HasMarker(ret.out)) =>
         IsChanged(data_, prev_data_)
    /\ (ret.op = "is_changed" /\ ~ret.flag) =>
         ~HasMarker(Format(FALSE, data_, prev_data_))

\* format(false) has highlighted a character of a current payload that
\* differs from previous in a rendered field
C21_Witness ==
  /\ ret.op = "format"
  /\ ~ret.flag
  /\ HasPreviousData(data_, prev_data_)
  /\ HasMarker(ret.out)
  /\ Marked(ret.out, 1) # {}
  /\ IsChanged(data_, prev_data_)

\* the converse fails: current differs from previous in id only, so
\* is_changed() is true and format(false) highlights nothing
C21_WitnessConverse ==
  /\ ret.op = "format"
  /\ ~ret.flag
  /\ HasPreviousData(data_, prev_data_)
  /\ Cur.id # Prev.id
  /\ IsChanged(data_, prev_data_)
  /\ ~HasMarker(ret.out)
  /\ ret.out = ClockFormat(Cur)

\* C22: the output of diff without the highlight markers and the base
\* colour is the formatted text of the value rendered, whatever the
\* reference: of current for diff and format, of previous for format_prev.
C22_DiffShowsCurrent ==
  /\ dret.op \in {"diff", "format"} => Plain(dret.out) = DCurText
  /\ (dret.op = "format_prev" /\ HasValue(dr)) => Plain(dret.out) = DRefText

\* a highlighted position holds the current text's character where the
\* reference, longer than current, has another one
C22_Witness ==
  /\ dret.op = "diff"
  /\ HasValue(dr)
  /\ Len(DRefText) > Len(DCurText)
  /\ \E i \in Marked(dret.out, 1) : i >= 1 /\ DCurText[i] # DRefText[i]
  /\ Plain(dret.out) = DCurText

=============================================================================
